---- MODULE Spec2Model ----
(***************************************************************************)
(* The concurrent annotation-and-audio pipeline of src-tauri/src/lib.rs:   *)
(* parse_text (sentence splitter, reuse cache, bounded fan-out over        *)
(* sentences, progress events, index-sorted fan-in) and the audio cache    *)
(* ensure_audio_cached / ensure_audio_cached_sync (per-key lock table,     *)
(* generation semaphore, temp-file-then-rename).                           *)
(*                                                                         *)
(* Conventions.  A Rust String is a sequence of characters, a character a  *)
(* one-element TLA+ string; the ideographic full stop U+3002 is written    *)
(* "IDEOGRAPHIC_FULL_STOP".  Message texts that the code only ever copies  *)
(* are kept as one fragment, so "$Translation unavailable due to error."   *)
(* is <<"$", "Translation unavailable due to error.">>.  Option<T> is a    *)
(* sequence of length at most one.  Sequences are 1-based: sentence i of   *)
(* the model is index i-1 of the code.                                     *)
(***************************************************************************)
EXTENDS Naturals, Sequences, FiniteSets, TLC

\* ------------------------------------------------------------------ bounds
MaxSent == 2        \* input texts hold at most MaxSent sentences
MaxConc == 2        \* `concurrency` is drawn from 1..MaxConc
MaxTts == 2         \* `tts_concurrency` is drawn from 0..MaxTts
MaxBlocks == 2      \* an annotation answer holds at most MaxBlocks blocks
MaxLen == 4         \* the texts given to the splitter alone hold at most MaxLen characters
InnerCap == 8       \* tts_concurrency.min(8)

\* ----------------------------------------------------------------- options
None == <<>>
Some(x) == <<x>>

Max(a, b) == IF a >= b THEN a ELSE b
Min(a, b) == IF a <= b THEN a ELSE b

\* ------------------------------------------------------- sentence splitter
IsTerminal(c) == c \in {".", "IDEOGRAPHIC_FULL_STOP", "!", "?", "\n"}

IsWhitespace(c) == c \in {" ", "\n", "\t"}

RECURSIVE TrimStart(_)
TrimStart(s) ==
    IF s # <<>> /\ IsWhitespace(Head(s)) THEN TrimStart(Tail(s)) ELSE s

RECURSIVE TrimEnd(_)
TrimEnd(s) ==
    IF s # <<>> /\ IsWhitespace(s[Len(s)])
    THEN TrimEnd(SubSeq(s, 1, Len(s) - 1))
    ELSE s

Trim(s) == TrimEnd(TrimStart(s))

\* a splitter that cuts after every terminal character
RunEnd_Single(text, j) == j

\* the inner `while let Some(&next_c) = chars.peek()`: the last index of the
\* run of terminal characters that starts at index j
RECURSIVE RunEnd(_, _)
RunEnd(text, j) ==
    IF j + 1 <= Len(text) /\ IsTerminal(text[j + 1])
    THEN RunEnd(text, j + 1)
    ELSE j

\* a push without the is_empty test
PushTrimmed_Always(acc, current) == Append(acc, Trim(current))

PushTrimmed(acc, current) ==
    IF Trim(current) # <<>> THEN Append(acc, Trim(current)) ELSE acc

RECURSIVE SplitFrom(_, _, _, _)
SplitFrom(text, i, current, acc) ==
    IF i > Len(text)
    THEN PushTrimmed(acc, current)
    ELSE IF IsTerminal(text[i])
         THEN LET j == RunEnd(text, i)
              IN  SplitFrom(text, j + 1, <<>>,
                            PushTrimmed(acc, current \o SubSeq(text, i, j)))
         ELSE SplitFrom(text, i + 1, Append(current, text[i]), acc)

SplitSentences(text) == SplitFrom(text, 1, <<>>, <<>>)

\* ------------------------------------------------------------- audio names
pick_voice(lang) ==
    CASE lang = "KR" -> "ko-KR-SunHiNeural"
      [] lang = "RU" -> "ru-RU-SvetlanaNeural"
      [] OTHER -> "en-US-JennyNeural"

\* SHA-256 of "voice|kind|text".  kind and voice hold no '|', so the joined
\* string determines the triple; the digest is represented by its preimage
\* (collisions of SHA-256 are outside the model).
hash_key(voice, kind, text) == <<voice, kind, text>>

CacheKey(lang, kind, text) == hash_key(pick_voice(lang), kind, text)

\* dir.join(format!("{}_{}.mp3", kind, key)) under <app data>/audio/<article>
AudioPath(article_id, kind, key) ==
    [dir |-> article_id, prefix |-> "", kind |-> kind, key |-> key]

\* dir.join(format!(".tmp_{}_{}.mp3", kind, key))
TmpPath(article_id, kind, key) ==
    [dir |-> article_id, prefix |-> ".tmp_", kind |-> kind, key |-> key]

\* --------------------------------------------------------------- data model
\* WordBlock: the language-specific Option fields (chinese_root .. aspect) are
\* carried through parse_text untouched and are left out.
WordBlock(text, pos, definition, audio_path) ==
    [text |-> text, pos |-> pos, definition |-> definition,
     audio_path |-> audio_path]

MkSentence(id, original, bs, tr, audio_path) ==
    [id |-> id, original |-> original, blocks |-> bs, translation |-> tr,
     audio_path |-> audio_path]

\* Result<T, String>: val is Some(v) of Ok(v), err the message of Err(e)
Ok(v) == [ok |-> TRUE, val |-> Some(v), err |-> ""]
Err(e) == [ok |-> FALSE, val |-> None, err |-> e]

StartsWith(s, c) == Len(s) > 0 /\ s[1] = c

\* the sentinel without its sigil
ErrorTranslation_NoSigil == <<"Translation unavailable due to error.">>

ErrorTranslation == <<"$", "Translation unavailable due to error.">>

\* the Err arm of `match call_ai_api(..)`
ErrorBlocks(raw, err) ==
    <<WordBlock(raw, "error", <<"Error: ", err>>, None)>>

\* ---------------------------------------------------------------- the map
EmptyMap == [x \in {} |-> None]

MapInsert(m, k, v) == [x \in DOMAIN m \cup {k} |-> IF x = k THEN v ELSE m[x]]

MapRemove(m, k) == [x \in DOMAIN m \ {k} |-> m[x]]

\* `for sent in old { old_map.insert(sent.original.clone(), sent); }`
RECURSIVE InsertAll(_, _)
InsertAll(m, old) ==
    IF old = <<>>
    THEN m
    ELSE InsertAll(MapInsert(m, Head(old).original, Head(old)), Tail(old))

BuildOldMap(old_sentences) ==
    IF old_sentences = None THEN EmptyMap ELSE InsertAll(EmptyMap, old_sentences[1])

\* unordered_results.sort_by_key(|(i, _)| *i): a stable insertion sort
RECURSIVE InsertByKey(_, _)
InsertByKey(sorted, e) ==
    IF sorted = <<>> THEN <<e>>
    ELSE IF sorted[Len(sorted)][1] <= e[1]
         THEN Append(sorted, e)
         ELSE Append(InsertByKey(SubSeq(sorted, 1, Len(sorted) - 1), e),
                     sorted[Len(sorted)])

RECURSIVE SortFrom(_, _)
SortFrom(sorted, rest) ==
    IF rest = <<>> THEN sorted
    ELSE SortFrom(InsertByKey(sorted, Head(rest)), Tail(rest))

\* the fan-in without its sort
SortByKey_Unsorted(rs) == rs

SortByKey(rs) == SortFrom(<<>>, rs)

\* -------------------------------------------------------------------- inputs
WordX == WordBlock(<<"x">>, "noun", <<"d">>, None)

Punct == WordBlock(<<".">>, "punctuation", <<"p">>, None)

\* a token whose text is blank
Blank == WordBlock(<<" ">>, "noun", <<"b">>, None)

\* what call_ai_api can answer for one sentence: Ok(AiParsedResult), here a
\* word followed by a punctuation mark, a blank token followed by a
\* punctuation mark, or the same word 2..MaxBlocks times ...
AiAnswers ==
    {[translation |-> <<"t">>, blocks |-> <<WordX, Punct>>],
     [translation |-> <<"t">>, blocks |-> <<Blank, Punct>>]} \cup
    {[translation |-> <<"t">>, blocks |-> [k \in 1..n |-> WordX]] : n \in 2..MaxBlocks}

\* ... or Err(message)
AiErrors == {"Network Error"}

SentA == <<"a", ".">>

\* a sentence of an earlier run whose annotation succeeded; its blocks, a
\* word and a punctuation mark, carry audio paths attached earlier
OldGood ==
    MkSentence(<<"art", 7>>, SentA,
               <<WordBlock(<<"x">>, "noun", <<"d0">>,
                           Some(AudioPath("old", "block", CacheKey("KR", "block", <<"x">>)))),
                 WordBlock(<<".">>, "punctuation", <<"p0">>,
                           Some(AudioPath("old", "block", CacheKey("KR", "block", <<".">>))))>>,
               <<"t0">>, None)

\* a sentence of an earlier run whose annotation failed
OldFailed ==
    MkSentence(<<"art", 7>>, SentA, ErrorBlocks(SentA, "Network Error"),
               ErrorTranslation, None)

SentB == <<"b", "!">>

\* the texts made of at most n sentences, each "a." or "b!", joined by a space
RECURSIVE TextsUpTo(_)
TextsUpTo(n) ==
    IF n = 0 THEN {<<>>}
    ELSE LET shorter == TextsUpTo(n - 1)
         IN  shorter \cup
             {IF t = <<>> THEN sent ELSE t \o <<" ">> \o sent :
                  t \in shorter, sent \in {SentA, SentB}}

RunOld == {None, Some(<<OldGood>>), Some(<<OldFailed>>)}

\* two previous sentences of one text, in either order
RunOldTwice == {Some(<<OldFailed, OldGood>>), Some(<<OldGood, OldFailed>>)}

\* env.answers: the Ok answers the annotation service can give;
\* env.faults: whether the file system and the voice service can fail
Envs(answers, faults) == [answers : answers, faults : faults]

Args(texts, keys, concs, audios, ttss, olds) ==
    [id : {"art"}, text : texts, language : {"KR"}, api_key : keys,
     concurrency : concs, pre_cache_audio : audios, tts_concurrency : ttss,
     old_sentences : olds]

Scenarios(args, envs) == [arg : args, env : envs]

\* Runs without audio: every text of at most MaxSent sentences, every limit.
PlainRuns ==
    Scenarios(Args(TextsUpTo(MaxSent), {<<>>, <<"k">>}, 1..MaxConc, {FALSE},
                   {0}, RunOld \cup RunOldTwice),
              Envs({AiAnswers}, {FALSE}))

\* Runs with audio over one sentence: the sentence call and up to two block
\* calls (of the same key when the answer repeats a word), every pool size.
OneSentenceAudioRuns ==
    Scenarios(Args({SentA}, {<<"k">>}, {1}, {TRUE}, 0..MaxTts, RunOld),
              Envs({AiAnswers}, {TRUE}))

\* Runs with audio over two equal sentences in parallel, one block each: the
\* two sentence calls share their key, and so do the two block calls.
TwoSentenceAudioRuns ==
    Scenarios(Args({SentA \o <<" ">> \o SentA}, {<<"k">>}, {2}, {TRUE},
                   {MaxTts}, {None}),
              Envs({{[translation |-> <<"t">>, blocks |-> <<WordX>>]}}, {TRUE}))

\* --------------------------------------------------------------------- state
VARIABLES
    arg,                \* the arguments of this call of parse_text
    env,                \* what the collaborators can do during this call
    pc,                 \* "called" | "running" | "returned"
    ret,                \* Option of the Result parse_text returned
    old_map,            \* HashMap<String, Sentence>
    raw_sentences,      \* Vec<String>
    completed,          \* AtomicUsize
    tts_sem,            \* permits available in the Semaphore
    tts_locks,          \* DashMap: key -> the mutex stored for it
    locked,             \* the mutexes whose guard is held
    started,            \* sentence futures pulled by buffer_unordered
    st,                 \* per sentence: "pending" | "annotating" | "audio" | "done"
    blocks,             \* per sentence: its `blocks`
    translation,        \* per sentence: its `translation`
    pulled,             \* per sentence: block futures pulled by the inner stream
    block_paths,        \* per sentence: block index -> Option path, as collected
    apc,                \* per ensure_audio_cached call: its position
    arc,                \* per call: the mutex it cloned out of tts_locks
    ares,               \* per call: the Result it returned, as its caller keeps it (.ok())
    files,              \* final paths that exist in the cache directory
    tmp_files,          \* temporary files that exist in the cache directory
    unordered_results,  \* Vec<(usize, Sentence)> in completion order
    events,             \* "parsing-progress" payloads in emission order
    ai_calls,           \* per sentence: calls of call_ai_api issued
    ai_ret,             \* per sentence: Option of the Result call_ai_api returned
    overlap,            \* pairs of calls with identical arguments that ran at the same time
    synth_calls,        \* key -> calls of edge_tts_mp3 issued
    partial,            \* files (temporary or final) whose bytes are not all written
    overwritten,        \* final paths that were renamed onto while they existed
    earlier,            \* Option of the Result the call of parse_text before this one returned
    peer_pc,            \* position of the audio call of a second, concurrent call of parse_text
    peer_sem,           \* permits available in that call's own Semaphore
    peer_locks          \* the keys of that call's own DashMap

inputVars == <<arg, env, old_map, raw_sentences>>
taskVars == <<started, st, blocks, translation, pulled, ai_calls, ai_ret>>
outVars == <<completed, events, unordered_results>>
callVars == <<apc, arc, ares, block_paths, overlap>>
syncVars == <<tts_sem, tts_locks, locked>>
fsVars == <<files, tmp_files, synth_calls, partial, overwritten>>
processVars == <<earlier, peer_pc, peer_sem, peer_locks>>
vars == <<inputVars, processVars, pc, ret, taskVars, outVars, callVars, syncVars, fsVars>>

total == Len(raw_sentences)

\* an ensure_audio_cached call is <<i, 0>> (the audio of sentence i, spawned
\* at line 694) or <<i, k>> (the audio of block k of sentence i, line 729)
Calls == DOMAIN apc

KindOf(r) == IF r[2] = 0 THEN "sentence" ELSE "block"

TextOf(r) == IF r[2] = 0 THEN raw_sentences[r[1]] ELSE blocks[r[1]][r[2]].text

KeyOf(r) == CacheKey(arg.language, KindOf(r), TextOf(r))

PathOf(r) == AudioPath(arg.id, KindOf(r), KeyOf(r))

TmpOf(r) == TmpPath(arg.id, KindOf(r), KeyOf(r))

\* A second call of parse_text for the same article and text that runs in
\* the same process at the same time is followed through the audio call of
\* its first sentence: the same key, path and temporary file as call <<1, 0>>.
\* the peer's call is written <<0, 0>> among the calls <<i, k>>
PeerId == <<0, 0>>

PeerKey == CacheKey(arg.language, "sentence", raw_sentences[1])

PeerPath == AudioPath(arg.id, "sentence", PeerKey)

PeerTmp == TmpPath(arg.id, "sentence", PeerKey)

\* calls whose edge_tts_mp3 request is in flight
Synthesizing == {r \in Calls : apc[r] = "synth"}

\* calls that own a semaphore permit
PermitHolders ==
    {r \in Calls :
        apc[r] \in {"blocking", "synth", "write", "writing", "rename", "remove", "return"}}

\* calls that own the guard of their mutex
GuardHolders ==
    {r \in Calls : apc[r] \in {"held", "permit"}} \cup PermitHolders

InitWith(scenarios) ==
    /\ \E sc \in scenarios : arg = sc.arg /\ env = sc.env
    /\ pc = "called"
    /\ ret = None
    /\ old_map = EmptyMap
    /\ raw_sentences = <<>>
    /\ completed = 0
    /\ tts_sem = 0
    /\ tts_locks = EmptyMap
    /\ locked = {}
    /\ started = 0
    /\ st = <<>>
    /\ blocks = <<>>
    /\ translation = <<>>
    /\ pulled = <<>>
    /\ block_paths = <<>>
    /\ apc = EmptyMap
    /\ arc = EmptyMap
    /\ ares = EmptyMap
    /\ files = {}
    /\ tmp_files = {}
    /\ unordered_results = <<>>
    /\ events = <<>>
    /\ ai_calls = <<>>
    /\ ai_ret = <<>>
    /\ overlap = {}
    /\ synth_calls = EmptyMap
    /\ partial = {}
    /\ overwritten = {}
    /\ earlier = None
    /\ peer_pc = "idle"
    /\ peer_sem = 0
    /\ peer_locks = {}

Init == InitWith(PlainRuns \cup OneSentenceAudioRuns \cup TwoSentenceAudioRuns)

\* ---------------------------------------------------------------- parse_text
\* ((current as f32 / total as f32) * 100.0) as u32.  For every total the
\* model reaches (1..3) the f32 product truncates to the integer quotient.
Percent(current, n) == (current * 100) \div n

ProgressPayload(id, current, n) ==
    [id |-> id, current |-> current, total |-> n, percent |-> Percent(current, n)]

\* tts_concurrency.max(1)
SemaphoreSize(tts_concurrency) == Max(tts_concurrency, 1)

\* tts_concurrency.min(8).max(1)
InnerLimit(tts_concurrency) == Max(Min(tts_concurrency, InnerCap), 1)

\* old_map.get(&raw).cloned()
Cached(raw) == IF raw \in DOMAIN old_map THEN Some(old_map[raw]) ELSE None

\* a reuse check that never hits
Reusable_Never(cached) == FALSE

\* a reuse check that takes every entry, the failed ones too
Reusable_AnyEntry(cached) == cached # None

\* cached.as_ref().map_or(false, |b| !b.translation.starts_with('$'))
Reusable(cached) == cached # None /\ ~StartsWith(cached[1].translation, "$")

\* a buffer that never counts as full
InProgress_Nothing == {}

\* sentence futures pulled by buffer_unordered(concurrency) and not finished
InProgress == {i \in 1..started : st[i] # "done"}

\* a credentials check that never fails
MissingCredentials_Never(api_key) == FALSE

\* line 587: api_key.is_empty()
MissingCredentials(api_key) == api_key = <<>>

\* lines 587-636: the credentials check, the reuse map, the splitter, the
\* shared counter, semaphore and lock table
ParseTextBegin ==
    /\ pc = "called"
    /\ IF MissingCredentials(arg.api_key)
       THEN /\ pc' = "returned"
            /\ ret' = Some(Err("API Key is missing"))
            /\ UNCHANGED <<old_map, raw_sentences, tts_sem, st, blocks,
                           translation, pulled, block_paths, ai_calls, ai_ret>>
       ELSE LET raw == SplitSentences(arg.text)
            IN  /\ pc' = "running"
                /\ ret' = None
                /\ old_map' = BuildOldMap(arg.old_sentences)
                /\ raw_sentences' = raw
                /\ tts_sem' = SemaphoreSize(arg.tts_concurrency)
                /\ st' = [i \in 1..Len(raw) |-> "pending"]
                /\ blocks' = [i \in 1..Len(raw) |-> <<>>]
                /\ translation' = [i \in 1..Len(raw) |-> <<>>]
                /\ pulled' = [i \in 1..Len(raw) |-> 0]
                /\ block_paths' = [i \in 1..Len(raw) |-> EmptyMap]
                /\ ai_calls' = [i \in 1..Len(raw) |-> 0]
                /\ ai_ret' = [i \in 1..Len(raw) |-> None]
    /\ UNCHANGED <<arg, env, processVars, completed, tts_locks, locked, started,
                   apc, arc, ares, overlap, outVars, fsVars>>

\* the event numbered by the sentence's index instead of the shared counter
Complete_CountByIndex(i, bs, tr, sentence_audio) ==
    LET sentence == MkSentence(<<arg.id, i - 1>>, raw_sentences[i], bs, tr,
                               sentence_audio)
    IN  /\ completed' = completed + 1
        /\ events' = Append(events, ProgressPayload(arg.id, i, total))
        /\ unordered_results' = Append(unordered_results, <<i - 1, sentence>>)
        /\ st' = [st EXCEPT ![i] = "done"]

\* lines 747-766: the Sentence is built, the counter bumped, the event
\* emitted, and (i, sentence) handed to the collecting stream.  No await
\* separates these steps and all sentence futures are polled by the one task
\* that runs parse_text, so they are one step.
Complete(i, bs, tr, sentence_audio) ==
    LET current == completed + 1
        sentence == MkSentence(<<arg.id, i - 1>>, raw_sentences[i], bs, tr,
                               sentence_audio)
    IN  /\ completed' = current
        /\ events' = Append(events, ProgressPayload(arg.id, current, total))
        /\ unordered_results' = Append(unordered_results, <<i - 1, sentence>>)
        /\ st' = [st EXCEPT ![i] = "done"]

\* a new ensure_audio_cached call r starts; `overlap` records the calls with
\* the same arguments that are running at this moment
SpawnCall(r) ==
    /\ apc' = MapInsert(apc, r, "entry")
    /\ overlap' = overlap \cup
           {{r, q} : q \in {c \in Calls : apc[c] # "done" /\ KeyOf(c) = KeyOf(r)}}

\* lines 684-699: after the annotation, either the audio phase starts (the
\* sentence's own audio call is spawned) or the sentence is finished
AfterAnnotation(i, bs, tr) ==
    /\ blocks' = [blocks EXCEPT ![i] = bs]
    /\ translation' = [translation EXCEPT ![i] = tr]
    /\ IF arg.pre_cache_audio
       THEN /\ st' = [st EXCEPT ![i] = "audio"]
            /\ SpawnCall(<<i, 0>>)
            /\ UNCHANGED outVars
       ELSE /\ Complete(i, bs, tr, None)
            /\ UNCHANGED <<apc, overlap>>

\* lines 638-662, 770-771: buffer_unordered(concurrency) pulls the next
\* sentence future; its first poll consults the reuse map and either goes on
\* with the cached annotation or issues the annotation call
StartTask(i) ==
    /\ pc = "running"
    /\ i = started + 1
    /\ i <= total
    /\ Cardinality(InProgress) < arg.concurrency
    /\ started' = i
    /\ LET cached == Cached(raw_sentences[i])
       IN  IF Reusable(cached)
           THEN /\ AfterAnnotation(i, cached[1].blocks, cached[1].translation)
                /\ UNCHANGED ai_calls
           ELSE /\ st' = [st EXCEPT ![i] = "annotating"]
                /\ ai_calls' = [ai_calls EXCEPT ![i] = @ + 1]
                /\ UNCHANGED <<blocks, translation, apc, overlap, outVars>>
    /\ UNCHANGED <<inputVars, processVars, pc, ret, pulled, ai_ret, arc, ares, block_paths,
                   syncVars, fsVars>>

\* line 662: call_ai_api returned Ok(res)
AnnotateOk(i, res) ==
    /\ pc = "running"
    /\ i \in 1..total
    /\ st[i] = "annotating"
    /\ ai_ret' = [ai_ret EXCEPT ![i] = Some(Ok(res))]
    /\ AfterAnnotation(i, res.blocks, res.translation)
    /\ UNCHANGED <<inputVars, processVars, pc, ret, started, pulled, ai_calls, arc, ares,
                   block_paths, syncVars, fsVars>>

\* the error propagated with `?` instead of recovered
AnnotateErr_Propagate(i, err) ==
    /\ pc = "running"
    /\ i \in 1..total
    /\ st[i] = "annotating"
    /\ ai_ret' = [ai_ret EXCEPT ![i] = Some(Err(err))]
    /\ pc' = "returned"
    /\ ret' = Some(Err(err))
    /\ UNCHANGED <<inputVars, processVars, started, st, blocks, translation, pulled, ai_calls,
                   outVars, callVars, syncVars, fsVars>>

\* lines 663-679: call_ai_api returned Err(err)
AnnotateErr(i, err) ==
    /\ pc = "running"
    /\ i \in 1..total
    /\ st[i] = "annotating"
    /\ ai_ret' = [ai_ret EXCEPT ![i] = Some(Err(err))]
    /\ AfterAnnotation(i, ErrorBlocks(raw_sentences[i], err), ErrorTranslation)
    /\ UNCHANGED <<inputVars, processVars, pc, ret, started, pulled, ai_calls, arc, ares,
                   block_paths, syncVars, fsVars>>

\* a fan-out that skips nothing
SkipsAudio_Never(b) == FALSE

\* line 724
SkipsAudio(b) == b.pos = "punctuation" \/ Trim(b.text) = <<>>

\* block futures of sentence i pulled by buffer_unordered(inner), unfinished
BlocksInProgress(i) == {k \in 1..pulled[i] : k \notin DOMAIN block_paths[i]}

\* lines 715-736: the inner stream pulls the next block future; its first poll
\* either yields (idx, None) or enters ensure_audio_cached
PullBlock(i) ==
    /\ pc = "running"
    /\ i \in 1..total
    /\ st[i] = "audio"
    /\ pulled[i] < Len(blocks[i])
    /\ Cardinality(BlocksInProgress(i)) < InnerLimit(arg.tts_concurrency)
    /\ LET k == pulled[i] + 1
       IN  /\ pulled' = [pulled EXCEPT ![i] = k]
           /\ IF SkipsAudio(blocks[i][k])
              THEN /\ block_paths' = [block_paths EXCEPT ![i] = MapInsert(@, k, None)]
                   /\ UNCHANGED <<apc, overlap>>
              ELSE /\ SpawnCall(<<i, k>>)
                   /\ UNCHANGED block_paths
    /\ UNCHANGED <<inputVars, processVars, pc, ret, started, st, blocks, translation,
                   ai_calls, ai_ret, outVars, arc, ares, syncVars, fsVars>>

\* Result::ok
OkOption(res) == IF res.ok THEN res.val ELSE None

\* one missing path blanks the paths of the whole sentence
WithAudioPaths_AllOrNothing(bs, paths) ==
    [k \in 1..Len(bs) |->
        [bs[k] EXCEPT !.audio_path =
            IF \E j \in 1..Len(bs) : ~SkipsAudio(bs[j]) /\ paths[j] = None
            THEN None
            ELSE paths[k]]]

\* lines 740-742
WithAudioPaths(bs, paths) ==
    [k \in 1..Len(bs) |-> [bs[k] EXCEPT !.audio_path = paths[k]]]

\* lines 737-766: every block future has been collected and the spawned
\* sentence-audio task has been joined
FinishTask(i) ==
    /\ pc = "running"
    /\ i \in 1..total
    /\ st[i] = "audio"
    /\ DOMAIN block_paths[i] = 1..Len(blocks[i])
    /\ <<i, 0>> \in Calls
    /\ apc[<<i, 0>>] = "done"
    /\ Complete(i, WithAudioPaths(blocks[i], block_paths[i]), translation[i],
                ares[<<i, 0>>])
    /\ UNCHANGED <<inputVars, processVars, pc, ret, started, blocks, translation, pulled,
                   ai_calls, ai_ret, callVars, syncVars, fsVars>>

\* lines 776: the Sentences of the index-sorted pairs
Sentences(rs) == [k \in 1..Len(rs) |-> rs[k][2]]

\* lines 770-778: the stream is exhausted; sort by index and return.
\* buffer_unordered(n) polls the stream of futures, and so learns that it has
\* ended, only while fewer than n futures are in progress: with n = 0 it
\* polls nothing and collect() stays pending.
ParseTextReturn ==
    /\ pc = "running"
    /\ started = total
    /\ Cardinality(InProgress) < arg.concurrency
    /\ \A i \in 1..total : st[i] = "done"
    /\ pc' = "returned"
    /\ ret' = Some(Ok(Sentences(SortByKey(unordered_results))))
    /\ UNCHANGED <<inputVars, processVars, taskVars, outVars, callVars, syncVars, fsVars>>

\* ------------------------------------------------------ ensure_audio_cached
\* a guard that outlives its call
DropGuard_Leak(r) == locked

\* the guard `_guard` is dropped
DropGuard(r) == locked \ {arc[r]}

\* a permit that is forgotten instead of dropped
DropPermit_Leak(r) == tts_sem

\* the permit `_permit` is dropped
DropPermit(r) == tts_sem + 1

\* ensure_audio_cached returns `res`: its locals are dropped (the permit when
\* it has one, then the guard) and the caller takes the result: a block future
\* yields (idx, res.ok()) to the inner stream, the spawned sentence task keeps
\* res.ok() for its JoinHandle
ExitCall(r, res, has_permit) ==
    /\ apc' = [apc EXCEPT ![r] = "done"]
    /\ ares' = MapInsert(ares, r, OkOption(res))
    /\ locked' = DropGuard(r)
    /\ tts_sem' = IF has_permit THEN DropPermit(r) ELSE tts_sem
    /\ block_paths' =
           IF r[2] = 0
           THEN block_paths
           ELSE [block_paths EXCEPT ![r[1]] = MapInsert(@, r[2], OkOption(res))]

\* insert(key, new mutex) instead of entry(key).or_insert_with(..)
LockEntry_AlwaysNew(r) ==
    /\ r \in Calls
    /\ apc[r] = "entry"
    /\ arc' = MapInsert(arc, r, r)
    /\ tts_locks' = MapInsert(tts_locks, KeyOf(r), r)
    /\ apc' = [apc EXCEPT ![r] = "lock"]
    /\ UNCHANGED <<inputVars, processVars, pc, ret, taskVars, outVars, ares, block_paths,
                   overlap, tts_sem, locked, fsVars>>

\* lines 154-157: tts_locks.entry(key).or_insert_with(..).clone().  A new
\* mutex is named after the call that creates it.
LockEntry(r) ==
    /\ r \in Calls
    /\ apc[r] = "entry"
    /\ LET key == KeyOf(r)
       IN  IF key \in DOMAIN tts_locks
           THEN /\ arc' = MapInsert(arc, r, tts_locks[key])
                /\ UNCHANGED tts_locks
           ELSE /\ arc' = MapInsert(arc, r, r)
                /\ tts_locks' = MapInsert(tts_locks, key, r)
    /\ apc' = [apc EXCEPT ![r] = "lock"]
    /\ UNCHANGED <<inputVars, processVars, pc, ret, taskVars, outVars, ares, block_paths,
                   overlap, tts_sem, locked, fsVars>>

\* try_lock with its result ignored instead of lock().await
LockAcquire_NoWait(r) ==
    /\ r \in Calls
    /\ apc[r] = "lock"
    /\ locked' = locked \cup {arc[r]}
    /\ apc' = [apc EXCEPT ![r] = "held"]
    /\ UNCHANGED <<inputVars, processVars, pc, ret, taskVars, outVars, arc, ares, overlap,
                   block_paths, tts_sem, tts_locks, fsVars>>

\* line 159: lock.lock().await
LockAcquire(r) ==
    /\ r \in Calls
    /\ apc[r] = "lock"
    /\ arc[r] \notin locked
    /\ locked' = locked \cup {arc[r]}
    /\ apc' = [apc EXCEPT ![r] = "held"]
    /\ UNCHANGED <<inputVars, processVars, pc, ret, taskVars, outVars, arc, ares, overlap,
                   block_paths, tts_sem, tts_locks, fsVars>>

\* line 161: audio_dir fails
DirFailure(r) ==
    /\ r \in Calls
    /\ env.faults
    /\ apc[r] = "held"
    /\ ExitCall(r, Err("create audio dir error"), FALSE)
    /\ UNCHANGED <<inputVars, processVars, pc, ret, taskVars, outVars, arc, overlap, tts_locks,
                   fsVars>>

\* the permit taken before the file is looked for
CheckCache_PermitFirst(r) ==
    /\ r \in Calls
    /\ apc[r] = "held"
    /\ apc' = [apc EXCEPT ![r] = "permit"]
    /\ UNCHANGED <<inputVars, processVars, pc, ret, taskVars, outVars, arc, ares,
                   overlap, block_paths, syncVars, fsVars>>

\* lines 161-166: audio_dir succeeds; the file is there (return its path) or
\* not (go on to the semaphore)
CheckCache(r) ==
    /\ r \in Calls
    /\ apc[r] = "held"
    /\ IF PathOf(r) \in files
       THEN ExitCall(r, Ok(PathOf(r)), FALSE)
       ELSE /\ apc' = [apc EXCEPT ![r] = "permit"]
            /\ UNCHANGED <<ares, block_paths, tts_sem, locked>>
    /\ UNCHANGED <<inputVars, processVars, pc, ret, taskVars, outVars, arc, overlap, tts_locks,
                   fsVars>>

\* lines 168-171: tts_sem.acquire_owned().await (the semaphore is never
\* closed, so the Err arm is not taken)
AcquirePermit(r) ==
    /\ r \in Calls
    /\ apc[r] = "permit"
    /\ tts_sem > 0
    /\ tts_sem' = tts_sem - 1
    /\ apc' = [apc EXCEPT ![r] = "blocking"]
    /\ UNCHANGED <<inputVars, processVars, pc, ret, taskVars, outVars, arc, ares, overlap,
                   block_paths, tts_locks, locked, fsVars>>

\* lines 178-182: the blocking task does not run to its end (JoinError)
JoinFailure(r) ==
    /\ r \in Calls
    /\ env.faults
    /\ apc[r] = "blocking"
    /\ ExitCall(r, Err("spawn_blocking join error"), TRUE)
    /\ UNCHANGED <<inputVars, processVars, pc, ret, taskVars, outVars, arc, overlap, tts_locks,
                   fsVars>>

\* ensure_audio_cached_sync, line 126: audio_dir fails
SyncDirFailure(r) ==
    /\ r \in Calls
    /\ env.faults
    /\ apc[r] = "blocking"
    /\ ExitCall(r, Err("create audio dir error"), TRUE)
    /\ UNCHANGED <<inputVars, processVars, pc, ret, taskVars, outVars, arc, overlap, tts_locks,
                   fsVars>>

\* ensure_audio_cached_sync, lines 124-133: the file is there (return its
\* path) or the synthesis request is sent
SyncBegin(r) ==
    /\ r \in Calls
    /\ apc[r] = "blocking"
    /\ IF PathOf(r) \in files
       THEN /\ apc' = [apc EXCEPT ![r] = "remove"]
            /\ UNCHANGED synth_calls
       ELSE /\ apc' = [apc EXCEPT ![r] = "synth"]
            /\ synth_calls' =
                   MapInsert(synth_calls, KeyOf(r),
                             IF KeyOf(r) \in DOMAIN synth_calls
                             THEN synth_calls[KeyOf(r)] + 1
                             ELSE 1)
    /\ UNCHANGED <<inputVars, processVars, pc, ret, taskVars, outVars, arc, ares, overlap,
                   block_paths, syncVars, files, tmp_files, partial, overwritten>>

\* line 133: edge_tts_mp3 returns the audio bytes
SynthOk(r) ==
    /\ r \in Calls
    /\ apc[r] = "synth"
    /\ apc' = [apc EXCEPT ![r] = "write"]
    /\ UNCHANGED <<inputVars, processVars, pc, ret, taskVars, outVars, arc, ares, overlap,
                   block_paths, syncVars, fsVars>>

\* line 133: edge_tts_mp3 fails (connect, voice or synthesize error)
SynthFailure(r) ==
    /\ r \in Calls
    /\ env.faults
    /\ apc[r] = "synth"
    /\ ExitCall(r, Err("edge tts synthesize error"), TRUE)
    /\ UNCHANGED <<inputVars, processVars, pc, ret, taskVars, outVars, arc, overlap, tts_locks,
                   fsVars>>

\* the writers whose fs::write to the temporary file tmp is under way
Writers(tmp) ==
    {r \in Calls : apc[r] = "writing" /\ TmpOf(r) = tmp} \cup
    (IF peer_pc = "writing" /\ PeerTmp = tmp THEN {PeerId} ELSE {})

\* fs::write, first half: the file is created or truncated
FsOpen(tmp) ==
    /\ tmp_files' = tmp_files \cup {tmp}
    /\ partial' = partial \cup {tmp}
    /\ UNCHANGED <<files, overwritten, synth_calls>>

\* fs::write, second half: writer w has written its last byte.  The bytes are
\* complete once no other writer has the same file open; the file may have
\* been renamed to `path` in the meantime.
FsWritten(w, tmp, path) ==
    /\ partial' = IF Writers(tmp) \ {w} = {} THEN partial \ {tmp, path} ELSE partial
    /\ UNCHANGED <<files, tmp_files, overwritten, synth_calls>>

\* a rename that removes the temporary file and creates nothing
FsRename_Lost(tmp, path) ==
    /\ tmp_files' = tmp_files \ {tmp}
    /\ UNCHANGED <<files, overwritten, partial, synth_calls>>

\* fs::rename: the file at tmp, as it is, takes the place of whatever is at path
FsRename(tmp, path) ==
    /\ tmp_files' = tmp_files \ {tmp}
    /\ files' = files \cup {path}
    /\ overwritten' = IF path \in files THEN overwritten \cup {path} ELSE overwritten
    /\ partial' = IF tmp \in partial
                  THEN (partial \ {tmp}) \cup {path}
                  ELSE partial \ {path}
    /\ UNCHANGED synth_calls

\* lines 135-136: fs::write(&tmp, audio) creates the temporary file ...
WriteOpen(r) ==
    /\ r \in Calls
    /\ apc[r] = "write"
    /\ FsOpen(TmpOf(r))
    /\ apc' = [apc EXCEPT ![r] = "writing"]
    /\ UNCHANGED <<inputVars, processVars, pc, ret, taskVars, outVars, arc, ares, overlap,
                   block_paths, syncVars>>

\* ... and returns once the bytes are written
WriteTmp(r) ==
    /\ r \in Calls
    /\ apc[r] = "writing"
    /\ FsWritten(r, TmpOf(r), PathOf(r))
    /\ apc' = [apc EXCEPT ![r] = "rename"]
    /\ UNCHANGED <<inputVars, processVars, pc, ret, taskVars, outVars, arc, ares, overlap,
                   block_paths, syncVars>>

\* line 136: fs::write fails, before or after it created the file
WriteFailure(r) ==
    /\ r \in Calls
    /\ env.faults
    /\ apc[r] \in {"write", "writing"}
    /\ ExitCall(r, Err("write audio error"), TRUE)
    /\ UNCHANGED <<inputVars, processVars, pc, ret, taskVars, outVars, arc, overlap, tts_locks,
                   fsVars>>

\* line 137: fs::rename(&tmp, &path)
Rename(r) ==
    /\ r \in Calls
    /\ apc[r] = "rename"
    /\ TmpOf(r) \in tmp_files
    /\ FsRename(TmpOf(r), PathOf(r))
    /\ apc' = [apc EXCEPT ![r] = "remove"]
    /\ UNCHANGED <<inputVars, processVars, pc, ret, taskVars, outVars, arc, ares, overlap,
                   block_paths, syncVars>>

\* line 137: fs::rename fails; it cannot but fail when the temporary file is
\* no longer there
RenameFailure(r) ==
    /\ r \in Calls
    /\ env.faults \/ TmpOf(r) \notin tmp_files
    /\ apc[r] = "rename"
    /\ ExitCall(r, Err("rename audio error"), TRUE)
    /\ UNCHANGED <<inputVars, processVars, pc, ret, taskVars, outVars, arc, overlap, tts_locks,
                   fsVars>>

\* line 184: tts_locks.remove(&key), with the guard and the permit still held
RemoveEntry(r) ==
    /\ r \in Calls
    /\ apc[r] = "remove"
    /\ tts_locks' = MapRemove(tts_locks, KeyOf(r))
    /\ apc' = [apc EXCEPT ![r] = "return"]
    /\ UNCHANGED <<inputVars, processVars, pc, ret, taskVars, outVars, arc, ares, overlap,
                   block_paths, tts_sem, locked, fsVars>>

\* line 186: Ok(out_path)
ReturnPath(r) ==
    /\ r \in Calls
    /\ apc[r] = "return"
    /\ ExitCall(r, Ok(PathOf(r)), TRUE)
    /\ UNCHANGED <<inputVars, processVars, pc, ret, taskVars, outVars, arc, overlap, tts_locks,
                   fsVars>>

\* ------------------------------------------------------------ specification
Next ==
    \/ ParseTextBegin
    \/ \E i \in 1..total : StartTask(i)
    \/ \E i \in 1..total : \E res \in env.answers : AnnotateOk(i, res)
    \/ \E i \in 1..total : \E err \in AiErrors : AnnotateErr(i, err)
    \/ \E i \in 1..total : PullBlock(i)
    \/ \E i \in 1..total : FinishTask(i)
    \/ \E r \in Calls : LockEntry(r)
    \/ \E r \in Calls : LockAcquire(r)
    \/ \E r \in Calls : DirFailure(r)
    \/ \E r \in Calls : CheckCache(r)
    \/ \E r \in Calls : AcquirePermit(r)
    \/ \E r \in Calls : JoinFailure(r)
    \/ \E r \in Calls : SyncDirFailure(r)
    \/ \E r \in Calls : SyncBegin(r)
    \/ \E r \in Calls : SynthOk(r)
    \/ \E r \in Calls : SynthFailure(r)
    \/ \E r \in Calls : WriteOpen(r)
    \/ \E r \in Calls : WriteTmp(r)
    \/ \E r \in Calls : WriteFailure(r)
    \/ \E r \in Calls : Rename(r)
    \/ \E r \in Calls : RenameFailure(r)
    \/ \E r \in Calls : RemoveEntry(r)
    \/ \E r \in Calls : ReturnPath(r)
    \/ ParseTextReturn

Spec == Init /\ [][Next]_vars

\* ------------------------------------------------------------------ fairness
\* every call the runs of the model can make
CallIds == {<<i, k>> : i \in 1..MaxSent, k \in 0..MaxBlocks}

\* the steps of parse_text's own task: the runtime keeps polling it
TaskStep ==
    \/ ParseTextBegin
    \/ \E i \in 1..total : StartTask(i)
    \/ \E i \in 1..total : \E res \in env.answers : AnnotateOk(i, res)
    \/ \E i \in 1..total : PullBlock(i)
    \/ \E i \in 1..total : FinishTask(i)
    \/ ParseTextReturn

\* the steps of call r other than its failures: the scheduler keeps polling
\* the call, the file system and the voice service are taken to answer, and
\* tokio's Mutex and Semaphore serve their waiters in the order of the
\* requests, so a waiter is served once the lock or a permit stays free
CallStep(r) ==
    \/ LockEntry(r)
    \/ LockAcquire(r)
    \/ CheckCache(r)
    \/ AcquirePermit(r)
    \/ SyncBegin(r)
    \/ SynthOk(r)
    \/ WriteOpen(r)
    \/ WriteTmp(r)
    \/ Rename(r)
    \/ RemoveEntry(r)
    \/ ReturnPath(r)

Fairness ==
    /\ WF_vars(TaskStep)
    /\ \A r \in CallIds : WF_vars(CallStep(r))

\* Runs with audio over one sentence whose answer holds the same word twice:
\* two block calls of one key next to the sentence call.
RepeatedWordRuns ==
    Scenarios(Args({SentA}, {<<"k">>}, {1}, {TRUE}, 1..MaxTts, {None}),
              Envs({{[translation |-> <<"t">>, blocks |-> <<WordX, WordX>>]}},
                   {TRUE}))

\* those runs under fair scheduling
FairSpec == InitWith(RepeatedWordRuns) /\ [][Next]_vars /\ Fairness

\* ---------------------------------------------------------- the splitter alone
\* a letter, a blank, two terminal characters, and the newline, which is both
\* terminal and whitespace
Alphabet == {"a", " ", ".", "?", "\n"}

\* the strings of at most n characters
RECURSIVE Strings(_)
Strings(n) ==
    IF n = 0 THEN {<<>>}
    ELSE LET shorter == Strings(n - 1)
         IN  shorter \cup {Append(t, c) : t \in shorter, c \in Alphabet}

\* Calls of parse_text with every text of at most MaxLen characters
SplitRuns ==
    Scenarios(Args(Strings(MaxLen), {<<"k">>}, {1}, {FALSE}, {0}, {None}),
              Envs({AiAnswers}, {FALSE}))

\* those calls up to the end of the splitter
SplitSpec == InitWith(SplitRuns) /\ [][ParseTextBegin]_vars

\* ---------------------------------------------------------------- a second run
\* lines 572-586: the command is invoked again with the arguments of the call
\* that has returned.  What that call returned is kept in `earlier`; the cache
\* directory stays as it is; the counters of the model start anew, and so do
\* the semaphore and the lock table, which every call creates for itself
\* (lines 635-636).
ParseTextAgain ==
    /\ pc = "returned"
    /\ earlier = None
    /\ earlier' = Some(ret[1])
    /\ pc' = "called"
    /\ ret' = None
    /\ old_map' = EmptyMap
    /\ raw_sentences' = <<>>
    /\ completed' = 0
    /\ tts_sem' = 0
    /\ tts_locks' = EmptyMap
    /\ locked' = {}
    /\ started' = 0
    /\ st' = <<>>
    /\ blocks' = <<>>
    /\ translation' = <<>>
    /\ pulled' = <<>>
    /\ block_paths' = <<>>
    /\ apc' = EmptyMap
    /\ arc' = EmptyMap
    /\ ares' = EmptyMap
    /\ unordered_results' = <<>>
    /\ events' = <<>>
    /\ ai_calls' = <<>>
    /\ ai_ret' = <<>>
    /\ overlap' = {}
    /\ synth_calls' = EmptyMap
    /\ UNCHANGED <<arg, env, peer_pc, peer_sem, peer_locks, files, tmp_files,
                   partial, overwritten>>

WordY == WordBlock(<<"y">>, "verb", <<"e">>, None)

\* Runs with audio over one sentence whose annotation is one of two words, or
\* comes from the reuse cache
RerunRuns ==
    Scenarios(Args({SentA}, {<<"k">>}, {1}, {TRUE}, {MaxTts}, {None, Some(<<OldGood>>)}),
              Envs({{[translation |-> <<"t">>, blocks |-> <<WordX>>],
                     [translation |-> <<"t">>, blocks |-> <<WordY>>]}}, {TRUE}))

NextRerun == Next \/ ParseTextAgain

\* those runs, each followed by a second run with the same arguments
RerunSpec == InitWith(RerunRuns) /\ [][NextRerun]_vars

\* ------------------------------------------------------- a concurrent run
\* what belongs to the call of parse_text the model follows in full
mainVars == <<inputVars, earlier, pc, ret, taskVars, outVars, callVars, syncVars>>

\* lines 635-636, 694: the second call of parse_text has created its own
\* Semaphore and its own DashMap and spawns the audio call of its first
\* sentence
PeerBegin ==
    /\ pc = "running"
    /\ arg.pre_cache_audio
    /\ total >= 1
    /\ peer_pc = "idle"
    /\ peer_pc' = "entry"
    /\ peer_sem' = SemaphoreSize(arg.tts_concurrency)
    /\ peer_locks' = {}
    /\ UNCHANGED <<mainVars, fsVars>>

\* lines 154-157, on the peer's own lock table
PeerLockEntry ==
    /\ peer_pc = "entry"
    /\ peer_locks' = peer_locks \cup {PeerKey}
    /\ peer_pc' = "lock"
    /\ UNCHANGED <<mainVars, fsVars, peer_sem>>

\* line 159: the mutex is the peer's own and nobody else holds it
PeerLockAcquire ==
    /\ peer_pc = "lock"
    /\ peer_pc' = "held"
    /\ UNCHANGED <<mainVars, fsVars, peer_sem, peer_locks>>

\* lines 161-166
PeerCheckCache ==
    /\ peer_pc = "held"
    /\ peer_pc' = IF PeerPath \in files THEN "done" ELSE "permit"
    /\ UNCHANGED <<mainVars, fsVars, peer_sem, peer_locks>>

\* lines 168-171, on the peer's own semaphore
PeerAcquirePermit ==
    /\ peer_pc = "permit"
    /\ peer_sem > 0
    /\ peer_sem' = peer_sem - 1
    /\ peer_pc' = "blocking"
    /\ UNCHANGED <<mainVars, fsVars, peer_locks>>

\* ensure_audio_cached_sync, lines 124-133
PeerSyncBegin ==
    /\ peer_pc = "blocking"
    /\ peer_pc' = IF PeerPath \in files THEN "remove" ELSE "synth"
    /\ UNCHANGED <<mainVars, fsVars, peer_sem, peer_locks>>

\* line 133
PeerSynthOk ==
    /\ peer_pc = "synth"
    /\ peer_pc' = "write"
    /\ UNCHANGED <<mainVars, fsVars, peer_sem, peer_locks>>

\* lines 135-136
PeerWriteOpen ==
    /\ peer_pc = "write"
    /\ FsOpen(PeerTmp)
    /\ peer_pc' = "writing"
    /\ UNCHANGED <<mainVars, peer_sem, peer_locks>>

PeerWriteTmp ==
    /\ peer_pc = "writing"
    /\ FsWritten(PeerId, PeerTmp, PeerPath)
    /\ peer_pc' = "rename"
    /\ UNCHANGED <<mainVars, peer_sem, peer_locks>>

\* line 137
PeerRename ==
    /\ peer_pc = "rename"
    /\ PeerTmp \in tmp_files
    /\ FsRename(PeerTmp, PeerPath)
    /\ peer_pc' = "remove"
    /\ UNCHANGED <<mainVars, peer_sem, peer_locks>>

\* line 137: the temporary file is gone; Err, and the permit is dropped
PeerRenameFailure ==
    /\ peer_pc = "rename"
    /\ PeerTmp \notin tmp_files
    /\ peer_pc' = "done"
    /\ peer_sem' = peer_sem + 1
    /\ UNCHANGED <<mainVars, fsVars, peer_locks>>

\* line 184
PeerRemoveEntry ==
    /\ peer_pc = "remove"
    /\ peer_locks' = peer_locks \ {PeerKey}
    /\ peer_pc' = "return"
    /\ UNCHANGED <<mainVars, fsVars, peer_sem>>

\* line 186
PeerReturn ==
    /\ peer_pc = "return"
    /\ peer_pc' = "done"
    /\ peer_sem' = peer_sem + 1
    /\ UNCHANGED <<mainVars, fsVars, peer_locks>>

\* Runs with audio over one sentence of one word
TwoRunRuns ==
    Scenarios(Args({SentA}, {<<"k">>}, {1}, {TRUE}, 1..MaxTts, {None}),
              Envs({{[translation |-> <<"t">>, blocks |-> <<WordX>>]}}, {TRUE}))

NextTwoRuns ==
    \/ Next
    \/ PeerBegin
    \/ PeerLockEntry
    \/ PeerLockAcquire
    \/ PeerCheckCache
    \/ PeerAcquirePermit
    \/ PeerSyncBegin
    \/ PeerSynthOk
    \/ PeerWriteOpen
    \/ PeerWriteTmp
    \/ PeerRename
    \/ PeerRenameFailure
    \/ PeerRemoveEntry
    \/ PeerReturn

\* those runs next to a second call of parse_text for the same article and
\* text in the same process
TwoRunSpec == InitWith(TwoRunRuns) /\ [][NextTwoRuns]_vars

\* ------------------------------------------------------------------ claims
Returned == pc = "returned" /\ ret # None

ReturnedOk == Returned /\ ret[1].ok

\* the Vec<Sentence> of an Ok return
Results == ret[1].val[1]

\* the collecting stream received the sentences in another order than the input's
OutOfOrder ==
    \E k \in 1..Len(unordered_results) - 1 :
        unordered_results[k][1] > unordered_results[k + 1][1]

\* C1: whenever parse_text has returned Ok, whatever the order in which the
\* sentence tasks completed, the returned list has one Sentence per split
\* sentence and entry i is the Sentence of the i-th split sentence (its
\* original text, and the index its id carries).
C1_OutputOrderIsInputOrder ==
    ReturnedOk =>
        /\ Len(Results) = Len(SplitSentences(arg.text))
        /\ \A i \in 1..Len(Results) :
               /\ Results[i].original = SplitSentences(arg.text)[i]
               /\ Results[i].id = <<arg.id, i - 1>>

C1_Witness ==
    /\ ReturnedOk
    /\ Len(Results) >= 2
    /\ Results[1].original # Results[2].original
    /\ OutOfOrder

\* C10: the progress events are non-decreasing in `current` in the order of
\* their emission, and once a run over at least one sentence has returned, the
\* last event has current = total and percent = 100.
C10_ProgressMonotoneAndFinal ==
    /\ \A k \in 1..Len(events) - 1 : events[k].current <= events[k + 1].current
    /\ (ReturnedOk /\ Len(SplitSentences(arg.text)) > 0) =>
           /\ Len(events) > 0
           /\ events[Len(events)].current = events[Len(events)].total
           /\ events[Len(events)].total = Len(SplitSentences(arg.text))
           /\ events[Len(events)].percent = 100

C10_Witness == ReturnedOk /\ Len(events) >= 2 /\ OutOfOrder

SameKey(r1, r2) == KeyOf(r1) = KeyOf(r2)

Done(r) == apc[r] = "done"

SynthCount(key) == IF key \in DOMAIN synth_calls THEN synth_calls[key] ELSE 0

\* C2: at no moment of a run are two synthesis requests for one cache key
\* (voice, kind, text) in flight, also after a successful generation has taken
\* the key's entry out of the lock table.
C2_NoConcurrentSynthesisOfOneKey ==
    \A r1 \in Synthesizing : \A r2 \in Synthesizing : SameKey(r1, r2) => r1 = r2

\* the entry of r1's key was removed while r1 still holds its guard, and r2
\* holds the guard of a fresh mutex for the same key
C2_Witness ==
    \E r1 \in Calls : \E r2 \in Calls :
        /\ r1 # r2
        /\ SameKey(r1, r2)
        /\ apc[r1] = "return"
        /\ apc[r2] = "held"
        /\ arc[r1] # arc[r2]

C4_PermitsConserved ==
    /\ Cardinality(Synthesizing) <= Max(1, arg.tts_concurrency)
    /\ (pc = "running" \/ ReturnedOk) =>
           tts_sem + Cardinality(PermitHolders) = Max(1, arg.tts_concurrency)

\* the pool is exhausted with a call waiting for a permit, after another call
\* left the synthesis step by a failure
C4_Witness ==
    /\ tts_sem = 0
    /\ \E r \in Calls : apc[r] = "permit"
    /\ \E c \in Calls : Done(c) /\ ares[c] = None /\ SynthCount(KeyOf(c)) >= 1

\* C5 as stated: the keys of the lock table are keys of calls in progress, so
\* a key's entry is gone once its call has completed, however it ended.
C5_LockTableBoundedByWork ==
    DOMAIN tts_locks \subseteq {KeyOf(r) : r \in {c \in Calls : ~Done(c)}}

StripAudio(bs) == [k \in 1..Len(bs) |-> [bs[k] EXCEPT !.audio_path = None]]

\* C7 as stated: a sentence whose text is a key of the reuse cache gets no
\* annotation call and is returned with the cached blocks and translation.
C7_ReuseCacheHit ==
    ReturnedOk =>
        \A i \in 1..Len(Results) :
            Results[i].original \in DOMAIN old_map =>
                /\ ai_calls[i] = 0
                /\ Results[i].blocks = old_map[Results[i].original].blocks
                /\ Results[i].translation = old_map[Results[i].original].translation

\* C7 amended: a sentence whose text is a key of the reuse cache and whose
\* cached translation does not begin with '$' gets no annotation call and is
\* returned with the cached translation and the cached blocks, the blocks
\* unchanged but for their audio paths, which are assigned anew when audio
\* pre-caching is requested.
C7_ReuseCacheHitUnlessSentinel ==
    ReturnedOk =>
        \A i \in 1..Len(Results) :
            ( /\ Results[i].original \in DOMAIN old_map
              /\ ~( /\ Len(old_map[Results[i].original].translation) > 0
                    /\ old_map[Results[i].original].translation[1] = "$" ) ) =>
                /\ ai_calls[i] = 0
                /\ Results[i].translation = old_map[Results[i].original].translation
                /\ StripAudio(Results[i].blocks) =
                       StripAudio(old_map[Results[i].original].blocks)
                /\ ~arg.pre_cache_audio =>
                       Results[i].blocks = old_map[Results[i].original].blocks

\* a reused sentence came back with another audio path than the cached one
C7_Witness ==
    /\ ReturnedOk
    /\ \E i \in 1..Len(Results) :
           /\ Results[i].original \in DOMAIN old_map
           /\ Results[i].translation = old_map[Results[i].original].translation
           /\ ai_calls[i] = 0
           /\ Results[i].blocks # old_map[Results[i].original].blocks

Failed(i) == ai_ret[i] # None /\ ~ai_ret[i][1].ok

Annotated(i) == ai_ret[i] # None /\ ai_ret[i][1].ok

\* C8: an annotation failure fails neither the run nor another sentence: a
\* run with credentials returns Ok with one Sentence per sentence; a failed
\* sentence has exactly one block, whose text is the sentence, whose tag is
\* "error" and whose definition holds the failure message; every other
\* sentence has the translation and blocks (audio paths apart) of the answer
\* it got itself, from the service or from the reuse cache.
C8_AnnotationFailureIsolated ==
    (pc = "returned" /\ arg.api_key # <<>>) =>
        /\ ReturnedOk
        /\ Len(Results) = Len(SplitSentences(arg.text))
        /\ \A i \in 1..Len(Results) :
               /\ Failed(i) =>
                      /\ Len(Results[i].blocks) = 1
                      /\ Results[i].blocks[1].text = Results[i].original
                      /\ Results[i].blocks[1].pos = "error"
                      /\ \E k \in 1..Len(Results[i].blocks[1].definition) :
                             Results[i].blocks[1].definition[k] = ai_ret[i][1].err
               /\ Annotated(i) =>
                      /\ Results[i].translation = ai_ret[i][1].val[1].translation
                      /\ StripAudio(Results[i].blocks) =
                             StripAudio(ai_ret[i][1].val[1].blocks)
               /\ ai_ret[i] = None =>
                      /\ Results[i].translation =
                             old_map[Results[i].original].translation
                      /\ StripAudio(Results[i].blocks) =
                             StripAudio(old_map[Results[i].original].blocks)

C8_Witness ==
    /\ ReturnedOk
    /\ \E i \in 1..Len(Results) : \E j \in 1..Len(Results) : Failed(i) /\ Annotated(j)

\* C9 as stated: a sentence whose annotation call failed has the translation
\* "Translation unavailable due to error." and a single error-tagged block
\* whose text is the sentence.
C9_ErrorTranslationPlain ==
    ReturnedOk =>
        \A i \in 1..Len(Results) :
            Failed(i) =>
                /\ Results[i].translation = <<"Translation unavailable due to error.">>
                /\ Len(Results[i].blocks) = 1
                /\ Results[i].blocks[1].pos = "error"
                /\ Results[i].blocks[1].text = Results[i].original

\* C9 amended: the translation is "$Translation unavailable due to error.",
\* with the leading '$' by which the reuse check recognises a failed sentence.
C9_ErrorTranslationWithSigil ==
    ReturnedOk =>
        \A i \in 1..Len(Results) :
            Failed(i) =>
                /\ Results[i].translation =
                       <<"$", "Translation unavailable due to error.">>
                /\ Len(Results[i].blocks) = 1
                /\ Results[i].blocks[1].pos = "error"
                /\ Results[i].blocks[1].text = Results[i].original

\* two sentences, no reuse cache, no audio, both annotation calls failed
C9_Witness ==
    /\ ReturnedOk
    /\ arg.old_sentences = None
    /\ ~arg.pre_cache_audio
    /\ Len(Results) = 2
    /\ Results[1].original # Results[2].original
    /\ \A i \in 1..Len(Results) : Failed(i)

WaitsForLock(r) == r \in Calls /\ apc[r] = "lock"

HoldsLock(r) == r \in Calls /\ apc[r] = "held"

\* C6: the guard of the per-key mutex is given up on every way out of
\* ensure_audio_cached, so under fair scheduling a call that waits for the
\* lock of its key acquires it, whatever the calls before it returned.
C6_WaiterAcquiresLock == \A r \in CallIds : WaitsForLock(r) ~> HoldsLock(r)

\* r2 holds the very mutex that r1, a call for the same key that ran at the
\* same time, held until it returned with a failure
C6_Witness ==
    \E r1 \in Calls : \E r2 \in Calls :
        /\ {r1, r2} \in overlap /\ r1 # r2
        /\ Done(r1) /\ ares[r1] = None
        /\ r1 \in DOMAIN arc /\ r2 \in DOMAIN arc /\ arc[r1] = arc[r2]
        /\ apc[r2] = "held"

\* C11: a call of parse_text with an empty api_key has, once it has left its
\* entry, returned Err("API Key is missing") and nothing else has happened: no
\* sentence was split off or started, no annotation call and no synthesis
\* request was issued, no audio call was made, the lock table and the cache
\* directory are untouched, and no progress event was emitted.
C11_MissingCredentialsReturnAtOnce ==
    (arg.api_key = <<>> /\ pc # "called") =>
        /\ pc = "returned"
        /\ ret = Some(Err("API Key is missing"))
        /\ raw_sentences = <<>>
        /\ started = 0
        /\ ai_calls = <<>>
        /\ Calls = {}
        /\ DOMAIN synth_calls = {}
        /\ DOMAIN tts_locks = {}
        /\ files = {} /\ tmp_files = {}
        /\ events = <<>>
        /\ completed = 0

\* the rejected call had two sentences to split and a reuse cache to read
C11_Witness ==
    /\ pc = "returned"
    /\ arg.api_key = <<>>
    /\ Len(SplitSentences(arg.text)) = 2
    /\ arg.old_sentences # None

\* the audio call r has returned Err
CallFailed(r) == r \in Calls /\ Done(r) /\ ares[r] = None

\* the path a successful audio request for `text` yields
ExpectedPath(kind, text) ==
    Some(AudioPath(arg.id, kind, CacheKey(arg.language, kind, text)))

\* C12: a failed audio request (directory, synthesis, write, rename or join
\* failure) costs only its own audio path.  A run with credentials and audio
\* pre-caching returns Ok with one Sentence per sentence; each Sentence keeps
\* its annotation (translation, and blocks apart from audio paths); the
\* sentence's audio path is empty when its request failed and the path of its
\* own key otherwise, and likewise for every block that is read aloud, whatever
\* happened to the other requests.
C12_AudioFailureIsolated ==
    (pc = "returned" /\ arg.api_key # <<>> /\ arg.pre_cache_audio) =>
        /\ ReturnedOk
        /\ Len(Results) = Len(SplitSentences(arg.text))
        /\ \A i \in 1..Len(Results) :
               /\ Results[i].translation = translation[i]
               /\ StripAudio(Results[i].blocks) = StripAudio(blocks[i])
               /\ Results[i].audio_path =
                      IF CallFailed(<<i, 0>>)
                      THEN None
                      ELSE ExpectedPath("sentence", Results[i].original)
               /\ \A k \in 1..Len(Results[i].blocks) :
                      ~SkipsAudio(Results[i].blocks[k]) =>
                          Results[i].blocks[k].audio_path =
                              IF CallFailed(<<i, k>>)
                              THEN None
                              ELSE ExpectedPath("block", Results[i].blocks[k].text)

\* of two blocks with the same text one request failed and the other did not,
\* and the sentence's own audio is there
C12_Witness ==
    /\ ReturnedOk
    /\ arg.pre_cache_audio
    /\ \E i \in 1..Len(Results) :
           /\ Results[i].audio_path # None
           /\ Len(Results[i].blocks) >= 2
           /\ Results[i].blocks[1].text = Results[i].blocks[2].text
           /\ CallFailed(<<i, 1>>)
           /\ Results[i].blocks[1].audio_path = None
           /\ Results[i].blocks[2].audio_path # None

\* the audio paths of a returned list: per sentence its own and its blocks'
AudioPaths(sentences) ==
    [i \in 1..Len(sentences) |->
        [sentence |-> sentences[i].audio_path,
         blocks |-> [k \in 1..Len(sentences[i].blocks) |->
                        sentences[i].blocks[k].audio_path]]]

\* the call before this one returned Ok
SecondRun == earlier # None /\ earlier[1].ok

FirstResults == earlier[1].val[1]

\* every audio request of the first run succeeded
FirstAllAudio ==
    \A i \in 1..Len(FirstResults) :
        /\ FirstResults[i].audio_path # None
        /\ \A k \in 1..Len(FirstResults[i].blocks) :
               \/ FirstResults[i].blocks[k].pos = "punctuation"
               \/ FirstResults[i].blocks[k].audio_path # None

\* every sentence annotated so far by the second run has the blocks it had in
\* the first
SameAnnotation ==
    \A i \in 1..total :
        \/ blocks[i] = <<>>
        \/ /\ i <= Len(FirstResults)
           /\ StripAudio(blocks[i]) = StripAudio(FirstResults[i].blocks)

C14_FinalFilesCompleteAndNeverOverwritten ==
    /\ files \cap partial = {}
    /\ overwritten = {}

\* synthesis requests in flight in the process: this run's and the peer's
InFlight == Cardinality(Synthesizing) + (IF peer_pc = "synth" THEN 1 ELSE 0)

\* C20 as stated: with two calls of parse_text running at the same time for
\* the same article and text, no two synthesis requests for one cache key are
\* in flight together, and the requests in flight stay within
\* max(1, tts_concurrency).
C20_SafeAcrossRuns ==
    /\ peer_pc = "synth" => \A r \in Synthesizing : KeyOf(r) # PeerKey
    /\ InFlight <= Max(1, arg.tts_concurrency)

RECURSIVE Concat(_)
Concat(seqs) == IF seqs = <<>> THEN <<>> ELSE Head(seqs) \o Concat(Tail(seqs))

NotWhitespace(c) == ~IsWhitespace(c)

NonWhitespace(s) == SelectSeq(s, NotWhitespace)

\* the splitter has run on the text of this call
SplitDone == pc = "running"

\* C15 as stated: no element of the splitter's output is empty or made of
\* whitespace only, and the elements concatenated are exactly the
\* non-whitespace characters of the input, in their order.
C15_ConcatIsNonWhitespaceInput ==
    SplitDone =>
        /\ \A k \in 1..Len(raw_sentences) : NonWhitespace(raw_sentences[k]) # <<>>
        /\ Concat(raw_sentences) = NonWhitespace(arg.text)

\* C15 amended: no element of the splitter's output is empty or made of
\* whitespace only, none begins or ends with whitespace, and the
\* non-whitespace characters of the elements concatenated are exactly the
\* non-whitespace characters of the input, in their order; whitespace inside
\* a sentence stays in its element.
C15_ConcatKeepsNonWhitespace ==
    SplitDone =>
        /\ \A k \in 1..Len(raw_sentences) :
               /\ NonWhitespace(raw_sentences[k]) # <<>>
               /\ ~IsWhitespace(raw_sentences[k][1])
               /\ ~IsWhitespace(raw_sentences[k][Len(raw_sentences[k])])
        /\ NonWhitespace(Concat(raw_sentences)) = NonWhitespace(arg.text)

\* the text begins with whitespace, which is dropped, and its sentence holds
\* whitespace, which is kept
C15_Witness ==
    /\ SplitDone
    /\ Len(arg.text) > 0 /\ IsWhitespace(arg.text[1])
    /\ \E k \in 1..Len(raw_sentences) :
           \E j \in 1..Len(raw_sentences[k]) : IsWhitespace(raw_sentences[k][j])

\* the indices after which the splitter cuts: the last character of every
\* maximal run of terminal characters
CutPoints(text) ==
    {j \in 1..Len(text) :
        IsTerminal(text[j]) /\ (j = Len(text) \/ ~IsTerminal(text[j + 1]))}

\* the pieces <<first, last>> the cuts leave, the unterminated end included
Pieces(text) ==
    LET cuts == CutPoints(text)
        Before(j) == {c \in cuts : c < j}
        First(j) == IF Before(j) = {} THEN 1
                    ELSE (CHOOSE c \in Before(j) : \A d \in Before(j) : d <= c) + 1
    IN  {<<First(j), j>> : j \in cuts} \cup
        (IF Len(text) > 0 /\ Len(text) \notin cuts
         THEN {<<First(Len(text) + 1), Len(text)>>}
         ELSE {})

\* the pieces that are not empty after trimming
KeptPieces(text) ==
    {p \in Pieces(text) : Trim(SubSeq(text, p[1], p[2])) # <<>>}

\* C16: the output of the splitter is, in order, the trimmed non-blank pieces
\* that cutting the text after every maximal run of terminal characters leaves:
\* a cut falls only after a terminal character, a run of terminal characters
\* is one cut and belongs to the piece it ends, and the text after the last
\* cut is a sentence exactly when it is not empty after trimming.
C16_CutsAfterTerminalRuns ==
    SplitDone =>
        LET kept == KeptPieces(arg.text)
            Rank(p) == Cardinality({q \in kept : q[2] <= p[2]})
        IN  /\ Len(raw_sentences) = Cardinality(kept)
            /\ \A p \in kept :
                   raw_sentences[Rank(p)] = Trim(SubSeq(arg.text, p[1], p[2]))

\* a sentence that ends in a run of two terminal characters, followed by
\* text without a terminal character
C16_Witness ==
    /\ SplitDone
    /\ Len(raw_sentences) = 2
    /\ Len(raw_sentences[1]) >= 3
    /\ IsTerminal(raw_sentences[1][Len(raw_sentences[1])])
    /\ IsTerminal(raw_sentences[1][Len(raw_sentences[1]) - 1])
    /\ \A j \in 1..Len(raw_sentences[2]) : ~IsTerminal(raw_sentences[2][j])

\* the sentences whose task has started and not finished
ActiveSentences == {i \in DOMAIN st : st[i] \in {"annotating", "audio"}}

\* the sentences whose annotation call is in flight
Annotating == {i \in DOMAIN st : st[i] = "annotating"}

\* C17: at every moment of a run the sentence tasks started and not finished,
\* and so the annotation calls in flight, are at most `concurrency`, whatever
\* the size of the audio semaphore; the tasks are started one by one in input
\* order, none twice, all of them before the run returns, and no sentence gets
\* more than one annotation call.
C17_SentenceConcurrencyBounded ==
    /\ Cardinality(ActiveSentences) <= arg.concurrency
    /\ Cardinality(Annotating) <= arg.concurrency
    /\ started <= total
    /\ \A i \in DOMAIN st : st[i] = "pending" <=> i > started
    /\ \A i \in DOMAIN ai_calls : ai_calls[i] <= 1
    /\ (ReturnedOk /\ arg.api_key # <<>>) => started = total

\* the limit is reached and a sentence waits for its turn
C17_Witness ==
    /\ pc = "running"
    /\ Cardinality(Annotating) = arg.concurrency
    /\ \E i \in DOMAIN st : st[i] = "pending"

\* a token that is not read aloud: tagged as punctuation, or of blank text
Silent(b) ==
    b.pos = "punctuation" \/ \A j \in 1..Len(b.text) : IsWhitespace(b.text[j])

\* C18: with audio pre-caching requested, no audio call (and so no lock and no
\* synthesis request) is ever made for a token tagged as punctuation or of
\* blank text, and such a token comes back with an empty audio path, whatever
\* path it carried in the reuse cache; without audio pre-caching the run makes
\* no audio call and no synthesis request and touches no lock at all.
C18_SilentTokensGetNoAudio ==
    /\ ~arg.pre_cache_audio =>
           /\ Calls = {}
           /\ DOMAIN synth_calls = {}
           /\ DOMAIN tts_locks = {}
           /\ locked = {}
    /\ arg.pre_cache_audio =>
           /\ \A r \in Calls : r[2] # 0 => ~Silent(blocks[r[1]][r[2]])
           /\ ReturnedOk =>
                  \A i \in 1..Len(Results) : \A k \in 1..Len(Results[i].blocks) :
                      Silent(Results[i].blocks[k]) =>
                          Results[i].blocks[k].audio_path = None

\* a sentence came back with its own audio, a blank token and a punctuation
\* mark, in a run whose audio calls are all accounted for
C18_Witness ==
    /\ ReturnedOk
    /\ arg.pre_cache_audio
    /\ \E i \in 1..Len(Results) :
           /\ Results[i].audio_path # None
           /\ Len(Results[i].blocks) = 2
           /\ Results[i].blocks[1].pos # "punctuation"
           /\ Silent(Results[i].blocks[1])
           /\ Results[i].blocks[2].pos = "punctuation"
           /\ Calls = {<<i, 0>>}

\* call r holds the lock of its key and the file of the key exists
HoldsLockOfCachedKey(r) == r \in Calls /\ apc[r] = "held" /\ PathOf(r) \in files

\* the step by which call r leaves that position takes no permit and issues
\* no synthesis request
LeavesWithoutPermit(r) ==
    /\ apc'[r] = "done"
    /\ tts_sem' = tts_sem
    /\ synth_calls' = synth_calls

\* C19 as stated: a call that holds the lock of its key while the file of the
\* key exists returns the path of that file, and does so without a synthesis
\* request and without a permit.
C19_CacheHitReturnsPath ==
    [][\A r \in Calls :
           (HoldsLockOfCachedKey(r) /\ apc'[r] # apc[r]) =>
               /\ LeavesWithoutPermit(r)
               /\ ares'[r] = Some(PathOf(r))]_vars

\* C19 amended: such a call returns at its next step, without a synthesis
\* request and without taking or waiting for a permit, whatever the number of
\* permits free; what it returns is the path of the file, or Err when the
\* audio directory cannot be resolved or created, which is tried first.
C19_CacheHitReturnsWithoutPermit ==
    [][\A r \in Calls :
           (HoldsLockOfCachedKey(r) /\ apc'[r] # apc[r]) =>
               /\ LeavesWithoutPermit(r)
               /\ ares'[r] \in {Some(PathOf(r)), None}]_vars

\* a call holds the lock of a key whose file exists while no permit is free,
\* the permits being held by synthesis requests for other keys
C19_Witness ==
    \E r \in Calls :
        /\ HoldsLockOfCachedKey(r)
        /\ tts_sem = 0
        /\ PermitHolders = Synthesizing
        /\ \A c \in Synthesizing : KeyOf(c) # KeyOf(r)

\* ------------------------------------------------------------------- C21
\* Runs with credentials over no sentence or one, with every sentence limit
\* from 0 and every audio limit from 0.
LimitRuns ==
    Scenarios(Args({<<>>, SentA}, {<<"k">>}, 0..MaxConc, {TRUE}, 0..MaxTts,
                   {None}),
              Envs({{[translation |-> <<"t">>, blocks |-> <<WordX, WordX>>]}},
                   {TRUE}))

\* those runs under fair scheduling
LimitSpec == InitWith(LimitRuns) /\ [][Next]_vars /\ Fairness

\* C21: a run with non-empty credentials eventually returns its result, for
\* every value of the sentence limit and of the audio limit, 0 included, and
\* for every number of sentences, none included, when every external call
\* returns and scheduling is fair.
C21_RunReturns == <>(pc = "returned")

\* ------------------------------------------------------------------- C22
\* call r has been made and has not returned
Pending(r) == r \in Calls /\ ~Done(r)

\* call r has returned
HasReturned(r) == r \in Calls /\ Done(r)

\* C22: the per-key locks and the generation semaphore never deadlock. A call
\* that owns a permit owns the guard of its key's mutex (the lock is taken
\* first, and a permit holder waits for no lock), a call waits for a permit
\* only while other calls own them all, and under fair scheduling with every
\* synthesis call returning every ensure_audio_cached call returns, for equal
\* and different keys and every pool size.
C22_EveryCallReturns ==
    /\ [](\A r \in PermitHolders : r \in GuardHolders /\ arc[r] \in locked)
    /\ []((tts_sem = 0 /\ \E r \in Calls : apc[r] = "permit") =>
              PermitHolders # {})
    /\ \A r \in CallIds : Pending(r) ~> HasReturned(r)

\* every permit is out, and a call waits for the lock of a key whose guard is
\* owned by one of the permit holders
C22_Witness ==
    /\ tts_sem = 0
    /\ \E r1 \in Calls : \E r2 \in PermitHolders :
           /\ r1 # r2
           /\ apc[r1] = "lock"
           /\ SameKey(r1, r2)
           /\ arc[r1] = arc[r2]

\* ------------------------------------------------------------------- C23
\* the previous sentences of the given text, as the caller supplied them
SuppliedFor(raw) ==
    IF arg.old_sentences = None THEN {}
    ELSE {k \in 1..Len(arg.old_sentences[1]) :
              arg.old_sentences[1][k].original = raw}

\* the last previous sentence of that text the caller supplied, if any
LastSupplied(raw) ==
    IF SuppliedFor(raw) = {} THEN None
    ELSE Some(arg.old_sentences[1][
             CHOOSE k \in SuppliedFor(raw) : \A j \in SuppliedFor(raw) : j <= k])

\* the entry stands for a failed annotation of an earlier run
IsSentinel(sentence) == sentence.translation = ErrorTranslation

\* C23: an entry of the reuse cache is reused only when its translation does
\* not start with '$'. A sentence whose last supplied previous sentence
\* carries the error sentinel of a failed run gets exactly one annotation
\* call, and its result is what that call gave, never the old failure; a
\* sentence that gets no call has the translation and blocks (audio paths
\* apart) of the last previous sentence supplied for its text.
C23_FailedEntryAnnotatedAgain ==
    \A i \in 1..total :
        st[i] # "pending" =>
            LET last == LastSupplied(raw_sentences[i])
            IN  /\ ai_calls[i] <= 1
                /\ ai_calls[i] = 0 <=>
                       (last # None /\ ~StartsWith(last[1].translation, "$"))
                /\ (last # None /\ IsSentinel(last[1])) => ai_calls[i] = 1
                /\ (st[i] = "done" /\ ai_calls[i] = 0) =>
                       /\ translation[i] = last[1].translation
                       /\ StripAudio(blocks[i]) = StripAudio(last[1].blocks)
                /\ (st[i] = "done" /\ ai_calls[i] = 1) =>
                       /\ Annotated(i) =>
                              /\ translation[i] = ai_ret[i][1].val[1].translation
                              /\ StripAudio(blocks[i]) =
                                     StripAudio(ai_ret[i][1].val[1].blocks)
                       /\ Failed(i) =>
                              /\ translation[i] = ErrorTranslation
                              /\ blocks[i] =
                                     ErrorBlocks(raw_sentences[i], ai_ret[i][1].err)
                       /\ Annotated(i) \/ Failed(i)

\* a run has returned two sentences of one text for which the caller supplied
\* a good and then a failed previous sentence: both were annotated again, one
\* call each, one with an answer and one with a new failure
C23_Witness ==
    /\ ReturnedOk
    /\ arg.old_sentences = Some(<<OldGood, OldFailed>>)
    /\ Len(Results) = 2
    /\ \A i \in 1..2 : Results[i].original = SentA /\ ai_calls[i] = 1
    /\ Annotated(1)
    /\ Failed(2)
    /\ Results[1].translation # ErrorTranslation

\* ------------------------------------------------------------------- C24
\* the sentences of the run that have been finalized
Finalized == {i \in 1..total : st[i] = "done"}

\* C24: a run over N sentences emits one progress event after each sentence
\* it finalizes, N in all; the k-th event emitted carries current = k and
\* total = N, so the values 1..N appear once each in increasing order; every
\* event carries the run's id; a run over no sentence emits no event and
\* returns the empty list.
C24_OneEventPerSentence ==
    LET N == Len(SplitSentences(arg.text))
    IN  /\ \A k \in 1..Len(events) :
               /\ events[k].current = k
               /\ events[k].total = N
               /\ events[k].id = arg.id
        /\ Len(events) = Cardinality(Finalized)
        /\ Len(events) = completed
        /\ ReturnedOk =>
               /\ Len(events) = N
               /\ Len(Results) = N
               /\ N = 0 => (events = <<>> /\ Results = <<>>)

\* a run over two sentences has returned; the second sentence was finalized
\* first, so the first event was emitted for it
C24_Witness ==
    /\ ReturnedOk
    /\ Len(events) = 2
    /\ unordered_results[1][1] = 1
    /\ events[1].current = 1
    /\ events[2].current = 2

====
